---------------------------- MODULE Spec2Model ----------------------------
(***************************************************************************)
(* Monthly shift roster of a care-home ward (dienstplan).                  *)
(*                                                                         *)
(* generate_schedule_highs (src/scheduler.py) builds a mixed-integer       *)
(* program and hands it to CBC.  The state below is the state of one       *)
(* invocation: the inputs, the module-level list variable_names, the       *)
(* facts the constraint builder derives from the inputs, the point the     *)
(* solver is working on (x, y), and the value returned to the caller.      *)
(*                                                                         *)
(* The solver is a library; it is modelled by its contract: a status       *)
(* OPTIMAL or FEASIBLE comes with a point that satisfies every row that    *)
(* was added with solver.Add.  The points the search visits are bounded    *)
(* as described at SolveStart and Branch; every row is evaluated as the    *)
(* code states it, on the whole roster.                                    *)
(***************************************************************************)
EXTENDS Integers, Sequences, FiniteSets, TLC

VARIABLES pc, year, month, employees, employee_qualifications, absences,
          ch_holidays, variable_names, absent, weekend_groups, x, y, open,
          status, result, employee_workload, credited, rows, calls,
          absence_data, tables

vars == <<pc, year, month, employees, employee_qualifications, absences,
          ch_holidays, variable_names, absent, weekend_groups, x, y, open,
          status, result, employee_workload, credited, rows, calls,
          absence_data, tables>>

inputs == <<year, month, employees, employee_qualifications, absences,
            ch_holidays, employee_workload>>

\* the rows of the table employees of the database as the app reads them,
\* the number of the current invocation of generate_schedule_highs, the
\* absences the app merges into the roster it shows, and the tables of the
\* database
outside == <<rows, calls, absence_data, tables>>

-----------------------------------------------------------------------------
(* Bounds of the check *)

\* largest number of variables of one (employee, day) cell that a search
\* step sets to 1 at once
MaxPerCell == 2

\* the roster is planned for the first MaxDays days of the month
MaxDays == 14

-----------------------------------------------------------------------------
(* Program constants, src/scheduler.py *)

MAX_SPLIT_SHIFTS == 3
MAX_WEEKENDS == 2
MAX_WEEKENDS_AUSB2 == 1
BURO_DAYS_PER_MONTH == 4

BUERO == "Bü Dienst"

\* required_shifts.keys(), in insertion order
shift_codes == <<"B Dienst", "C Dienst", "S Dienst", "VS Dienst",
                 "BS Dienst", "C4 Dienst">>

Shifts == {shift_codes[i] : i \in 1..Len(shift_codes)}

\* required_shifts[s]["total"]
required_total(s) ==
    CASE s = "B Dienst" -> 3
      [] s = "C Dienst" -> 1
      [] s = "S Dienst" -> 2
      [] s = "VS Dienst" -> 1
      [] OTHER -> 0

\* required_shifts[s].get("optional", False)
optional(s) == s \in {"BS Dienst", "C4 Dienst"}

fach_qual == {"HF", "Leitung"}

early_shifts == {"B Dienst", "C Dienst", "BS Dienst", "C4 Dienst"}

late_shifts == {"S Dienst", "VS Dienst", "BS Dienst", "C4 Dienst"}

-----------------------------------------------------------------------------
(* calendar.monthrange and datetime.date.weekday *)

isleap(yr) == yr % 4 = 0 /\ (yr % 100 # 0 \/ yr % 400 = 0)

mdays == <<31, 28, 31, 30, 31, 30, 31, 31, 30, 31, 30, 31>>

\* calendar.monthrange(year, month)[1]
monthrange(yr, m) == mdays[m] + (IF m = 2 /\ isleap(yr) THEN 1 ELSE 0)

\* number of days of the year before the first day of month m
days_before_month(yr, m) ==
    <<0, 31, 59, 90, 120, 151, 181, 212, 243, 273, 304, 334>>[m]
        + (IF m > 2 /\ isleap(yr) THEN 1 ELSE 0)

days_before_year(yr) ==
    LET p == yr - 1 IN p * 365 + p \div 4 - p \div 100 + p \div 400

\* datetime.date(yr, m, d).weekday(): Monday = 0 ... Sunday = 6
weekday(yr, m, d) ==
    (days_before_year(yr) + days_before_month(yr, m) + d + 6) % 7

Min(a, b) == IF a <= b THEN a ELSE b

\* num_days, cut to the planning bound
days_of(yr, m) == Min(monthrange(yr, m), MaxDays)

\* num_days of the invocation; the scan of the calendar alone takes the
\* whole month
num_days ==
    IF pc \in {"cal", "scanned"} THEN monthrange(year, month)
    ELSE days_of(year, month)

Days == 1..num_days

-----------------------------------------------------------------------------
(* Strings: a date string is a sequence of one-character strings *)

Digits == <<"0", "1", "2", "3", "4", "5", "6", "7", "8", "9">>

IsDigit(c) == \E k \in 1..10 : Digits[k] = c

DigitVal(c) == (CHOOSE k \in 1..10 : Digits[k] = c) - 1

\* str.split('.')
RECURSIVE split_dot(_)
split_dot(s) ==
    IF \A i \in 1..Len(s) : s[i] # "."
    THEN <<s>>
    ELSE LET i == CHOOSE j \in 1..Len(s) :
                      s[j] = "." /\ \A k \in 1..(j - 1) : s[k] # "."
         IN <<SubSeq(s, 1, i - 1)>> \o split_dot(SubSeq(s, i + 1, Len(s)))

\* int(tok) does not raise ValueError (tokens of decimal digits)
int_ok(tok) == Len(tok) > 0 /\ \A i \in 1..Len(tok) : IsDigit(tok[i])

RECURSIVE int_of(_)
int_of(tok) ==
    IF Len(tok) = 0 THEN 0
    ELSE 10 * int_of(SubSeq(tok, 1, Len(tok) - 1)) + DigitVal(tok[Len(tok)])

\* f"{n:02d}" (padded) and str(n) (not padded)
RECURSIVE render(_, _)
render(n, padded) ==
    IF n >= 100 THEN render(n \div 10, FALSE) \o <<Digits[(n % 10) + 1]>>
    ELSE IF n >= 10 \/ padded
    THEN <<Digits[(n \div 10) + 1], Digits[(n % 10) + 1]>>
    ELSE <<Digits[n + 1]>>

\* employee_qualifications.get(e_id)
qual_of(quals, e_id) ==
    IF e_id \in DOMAIN quals THEN quals[e_id] ELSE "None"

\* a variant that compares the text of the two fields with str(d) and
\* str(month) instead of converting them with int()
employee_is_absent_text(e_id, d, m, abs) ==
    /\ e_id \in DOMAIN abs
    /\ \E i \in 1..Len(abs[e_id]) :
          LET parts == split_dot(abs[e_id][i][1]) IN
          /\ Len(parts) >= 2
          /\ parts[1] = render(d, FALSE)
          /\ parts[2] = render(m, FALSE)

\* employee_is_absent(e_id, d, month, absences)
employee_is_absent(e_id, d, m, abs) ==
    /\ e_id \in DOMAIN abs
    /\ \E i \in 1..Len(abs[e_id]) :
          LET parts == split_dot(abs[e_id][i][1]) IN
          /\ Len(parts) >= 2
          /\ int_ok(parts[1])
          /\ int_ok(parts[2])
          /\ int_of(parts[1]) = d
          /\ int_of(parts[2]) = m

\* has_absence_type(e_id, day, month, absences, absence_type)
has_absence_type(e_id, day, m, abs, absence_type) ==
    /\ e_id \in DOMAIN abs
    /\ \E i \in 1..Len(abs[e_id]) :
          LET parts == split_dot(abs[e_id][i][1]) IN
          /\ Len(parts) >= 2
          /\ int_ok(parts[1])
          /\ int_ok(parts[2])
          /\ int_of(parts[1]) = day
          /\ int_of(parts[2]) = m
          /\ abs[e_id][i][2] = absence_type

\* a variant that counts the records instead of the days
total_absences_records(e_id, m, abs, n) ==
    IF e_id \in DOMAIN abs
    THEN Cardinality({i \in 1..Len(abs[e_id]) : abs[e_id][i][2] \in {"Fe", "SL"}})
    ELSE 0

\* total_absences: the days of 1..n with a record of kind Fe or SL
total_absences(e_id, m, abs, n) ==
    Cardinality({d \in 1..n : \/ has_absence_type(e_id, d, m, abs, "Fe")
                             \/ has_absence_type(e_id, d, m, abs, "SL")})

-----------------------------------------------------------------------------
(* Inputs.  The staff of every input is made of the core staff, two teams  *)
(* of nine (ids 1..18) without absences, and of up to two further          *)
(* employees (ids 22, 23) who are absent on most days of the month.        *)

CoreStaff == 1..18

\* position of a core employee in its team, 1..9, and the team, 0..1
core_pos(e) == ((e - 1) % 9) + 1

core_team(e) == (e - 1) \div 9

CoreQual(e) == IF core_pos(e) \in {1, 5} THEN "HF" ELSE "PH"

\* the date string "DD.MM." or "D.M." of a record
date_str(d, m, padded) == render(d, padded) \o <<".">> \o render(m, padded) \o <<".">>

kind_of(d) == <<"SL", "Fe", "uw", "w">>[(d % 4) + 1]

\* absences[e] of an employee who is away on every day of 1..n that is not
\* in present: one (date string, kind) record per day; the records of even
\* days are padded ("04.06."), those of odd days are not ("5.6.")
RECURSIVE away_records(_, _, _)
away_records(present, m, n) ==
    IF n = 0 THEN <<>>
    ELSE away_records(present, m, n - 1) \o
         (IF n \in present THEN <<>>
          ELSE << <<date_str(n, m, n % 2 = 0), kind_of(n)>> >>)

SeqOf(lo, hi) == [i \in 1..(hi - lo + 1) |-> lo + i - 1]

\* the target of every employee of the inputs: 20 days in the month (as in
\* the examples E1 and E2), 10 in the part of the month that is planned
target_days == 10

\* one input: staff, qualifications of the further employees, the days on
\* which each of them is present, the holidays
Input(yr, m, staff, quals, present, hol) ==
    [year |-> yr, month |-> m, employees |-> staff,
     employee_qualifications |->
        [e \in {staff[i] : i \in 1..Len(staff)} \cap (CoreStaff \cup DOMAIN quals) |->
            IF e \in CoreStaff THEN CoreQual(e) ELSE quals[e]],
     absences |->
        [e \in DOMAIN present |-> away_records(present[e], m, days_of(yr, m))],
     ch_holidays |-> hol,
     employee_workload |-> [e \in {staff[i] : i \in 1..Len(staff)} |-> target_days]]

Inputs ==
    { \* a Leitung next to the core staff
      Input(2025, 6, SeqOf(1, 18) \o <<22>>, (22 :> "Leitung"),
            (22 :> {1, 2, 3, 5, 6, 7, 9}), {}),
      \* two apprentices; Whit Monday is a holiday
      Input(2025, 6, SeqOf(1, 18) \o <<22, 23>>, (22 :> "Ausbildung 1") @@ (23 :> "Ausbildung 2"),
            (22 :> {5, 6, 7}) @@ (23 :> {6, 7, 8, 9}), {<<2025, 6, 9>>}),
      \* one PH on three consecutive weekdays
      Input(2025, 6, SeqOf(1, 18) \o <<22>>, (22 :> "PH"), (22 :> {2, 3, 4}), {}),
      \* an HF and a PH on the same day
      Input(2025, 6, SeqOf(1, 18) \o <<22, 23>>, (22 :> "HF") @@ (23 :> "PH"),
            (22 :> {3}) @@ (23 :> {3}), {}),
      \* one PH on the weekend days of three weekend units
      Input(2025, 6, SeqOf(1, 18) \o <<22>>, (22 :> "PH"), (22 :> {1, 7, 8, 14}), {}),
      \* an employee with a qualification that is not one of the five, and
      \* an employee without entry in employee_qualifications
      Input(2025, 6, SeqOf(1, 18) \o <<22, 23>>, (22 :> "FaGe"),
            (22 :> {3}) @@ (23 :> {3}), {}),
      \* a Leitung next to the core staff, and the HF of B Dienst away on
      \* a weekday
      Input(2025, 6, SeqOf(1, 18) \o <<22>>, (22 :> "Leitung"),
            (22 :> {2, 3, 4, 5, 6}) @@ (1 :> (1..30) \ {3}), {}),
      \* a Leitung with three weekdays without absence next to the core
      \* staff
      Input(2025, 6, SeqOf(1, 18) \o <<22>>, (22 :> "Leitung"), (22 :> {2, 3, 4}), {}),
      \* a single Leitung and no other staff, February 2025
      Input(2025, 2, <<22>>, (22 :> "Leitung"), <<>>, {}) }

\* the inputs of the runs with several invocations
FewInputs ==
    { Input(2025, 6, SeqOf(1, 18) \o <<22>>, (22 :> "Leitung"),
            (22 :> {2, 3, 4, 5}), {}),
      Input(2025, 6, SeqOf(1, 18) \o <<22, 23>>, (22 :> "HF") @@ (23 :> "PH"),
            (22 :> {3}) @@ (23 :> {4}), {}),
      Input(2025, 6, SeqOf(1, 18) \o <<22>>, (22 :> "PH"), (22 :> {3}), {}),
      Input(2025, 2, <<22>>, (22 :> "Leitung"), <<>>, {}) }

\* largest number of invocations in a run
MaxCalls == 2

Emps == {employees[i] : i \in 1..Len(employees)}

qual(e) == qual_of(employee_qualifications, e)

wd(d) == weekday(year, month, d)

-----------------------------------------------------------------------------
(* The model builder of generate_schedule_highs *)

\* variable_names after the two loops that create the variables: one entry
\* per day x shift code x employee, then one per day x Leitung employee
x_names(emps) ==
    [i \in 1..(num_days * Len(shift_codes) * Len(emps)) |->
        LET k == i - 1
            per_day == Len(shift_codes) * Len(emps)
        IN <<emps[(k % Len(emps)) + 1],
             (k \div per_day) + 1,
             shift_codes[((k % per_day) \div Len(emps)) + 1]>>]

is_leitung_name(v) == qual(v[1]) = "Leitung"

y_names(emps) ==
    SelectSeq([i \in 1..(num_days * Len(emps)) |->
                  <<emps[((i - 1) % Len(emps)) + 1],
                    ((i - 1) \div Len(emps)) + 1, BUERO>>],
              is_leitung_name)

\* a variant of the scan that does not record the days it has grouped
RECURSIVE scan_weekends_unhandled(_, _, _)
scan_weekends_unhandled(d, handled, groups) ==
    IF d > num_days THEN groups
    ELSE IF wd(d) \in {5, 6} /\ d \notin handled
         THEN IF wd(d) = 5 /\ d + 1 <= num_days /\ wd(d + 1) = 6
              THEN scan_weekends_unhandled(d + 1, handled,
                                           Append(groups, <<d, d + 1>>))
              ELSE scan_weekends_unhandled(d + 1, handled, Append(groups, <<d>>))
         ELSE scan_weekends_unhandled(d + 1, handled, groups)

\* the weekend groups: left-to-right scan over the days of the month
RECURSIVE scan_weekends(_, _, _)
scan_weekends(d, handled, groups) ==
    IF d > num_days THEN groups
    ELSE IF wd(d) \in {5, 6} /\ d \notin handled
         THEN IF wd(d) = 5 /\ d + 1 <= num_days /\ wd(d + 1) = 6
              THEN scan_weekends(d + 1, handled \cup {d, d + 1},
                                 Append(groups, <<d, d + 1>>))
              ELSE scan_weekends(d + 1, handled \cup {d}, Append(groups, <<d>>))
         ELSE scan_weekends(d + 1, handled, groups)

group_days(g) == {g[i] : i \in 1..Len(g)}

-----------------------------------------------------------------------------
(* The rows added with solver.Add, as predicates on a point (xx, yy):      *)
(* xx[e][d] is the set of shift codes s with x[(e, d, s)] = 1, yy the set  *)
(* of <<e, d>> with y[(e, d)] = 1.                                         *)

bit(b) == IF b THEN 1 ELSE 0

\* sum(x[(e, d, s)] for s in required_shifts.keys())
day_sum(xx, e, d) == Cardinality(xx[e][d])

\* Bü Dienst is forced to 0 on weekends, for non-Leitung and on absences
row_buero_zero(yy, e, d) ==
    (wd(d) >= 5 \/ qual(e) # "Leitung" \/ <<e, d>> \in absent)
        => <<e, d>> \notin yy

\* a variant with an upper bound of 2 instead of 1
row_one_shift_two(xx, yy, e, d) ==
    IF qual(e) = "Leitung"
    THEN day_sum(xx, e, d) + bit(<<e, d>> \in yy) <= 2
    ELSE day_sum(xx, e, d) <= 2

\* at most one shift per day
row_one_shift(xx, yy, e, d) ==
    IF qual(e) = "Leitung"
    THEN day_sum(xx, e, d) + bit(<<e, d>> \in yy) <= 1
    ELSE day_sum(xx, e, d) <= 1

\* availability: no shift on a day of absence
row_available(xx, e, d) ==
    <<e, d>> \in absent => day_sum(xx, e, d) = 0

\* Leitung: weekdays only, B Dienst or Bü Dienst only
row_leitung(xx, yy, e, d) ==
    qual(e) = "Leitung" =>
        IF wd(d) >= 5
        THEN day_sum(xx, e, d) = 0
        ELSE /\ \A s \in Shifts : s # "B Dienst" => s \notin xx[e][d]
             /\ bit("B Dienst" \in xx[e][d]) + bit(<<e, d>> \in yy) <= 1

\* a variant with an upper bound only
row_buero_days_upper(yy, e) ==
    qual(e) = "Leitung" =>
        Cardinality({d \in Days : wd(d) < 5 /\ <<e, d>> \in yy})
            <= BURO_DAYS_PER_MONTH

\* a variant that asks for as many Büro days as the Leitung has weekdays
\* without absence, when these are fewer than 4
row_buero_days_available(yy, e) ==
    qual(e) = "Leitung" =>
        Cardinality({d \in Days : wd(d) < 5 /\ <<e, d>> \in yy})
            = Min(BURO_DAYS_PER_MONTH,
                  Cardinality({d \in Days : wd(d) < 5 /\ <<e, d>> \notin absent}))

\* Leitung: exactly 4 Büro days, counted over the weekdays
row_buero_days(yy, e) ==
    qual(e) = "Leitung" =>
        Cardinality({d \in Days : wd(d) < 5 /\ <<e, d>> \in yy})
            = BURO_DAYS_PER_MONTH

\* a variant that asks for one assignment less than required
row_coverage_less(xx, d, s) ==
    ~optional(s) =>
        Cardinality({e \in Emps : s \in xx[e][d]}) >= required_total(s) - 1

\* minimum number of assignments of every non-optional shift code
row_coverage(xx, d, s) ==
    ~optional(s) =>
        Cardinality({e \in Emps : s \in xx[e][d]}) >= required_total(s)

\* a variant in which BS Dienst is not among the late shifts of the first row
row_transition_s_only(xx, e, d) ==
    (d >= 1 /\ d < num_days) =>
        /\ \A l \in {"S Dienst"} : \A s \in early_shifts :
              bit(l \in xx[e][d]) + bit(s \in xx[e][d + 1]) <= 1
        /\ bit("VS Dienst" \in xx[e][d])
             + Cardinality(xx[e][d + 1] \cap (early_shifts \ {"C Dienst"})) <= 1
        /\ bit("C4 Dienst" \in xx[e][d])
             + Cardinality(xx[e][d + 1] \cap (early_shifts \ {"C Dienst"})) <= 1

\* late-to-early transitions between day d and day d + 1
row_transition(xx, e, d) ==
    (d >= 1 /\ d < num_days) =>
        /\ \A l \in {"S Dienst", "BS Dienst"} : \A s \in early_shifts :
              bit(l \in xx[e][d]) + bit(s \in xx[e][d + 1]) <= 1
        /\ bit("VS Dienst" \in xx[e][d])
             + Cardinality(xx[e][d + 1] \cap (early_shifts \ {"C Dienst"})) <= 1
        /\ bit("C4 Dienst" \in xx[e][d])
             + Cardinality(xx[e][d + 1] \cap (early_shifts \ {"C Dienst"})) <= 1

\* a variant that links weekend_worked to the first day of a group only
worked_weekends_first_day(xx, e) ==
    {w \in 1..Len(weekend_groups) : xx[e][weekend_groups[w][1]] # {}}

\* the weekend groups in which weekend_worked[(e, w)] is forced to 1
worked_weekends(xx, e) ==
    {w \in 1..Len(weekend_groups) :
        \E d \in group_days(weekend_groups[w]) : xx[e][d] # {}}

\* at most MAX_WEEKENDS worked weekends
row_weekends(xx, e) == Cardinality(worked_weekends(xx, e)) <= MAX_WEEKENDS

\* a variant that takes Sunday for the only weekend day
row_lehrling_sunday(xx, e, d) ==
    qual(e) \in {"Ausbildung 1", "Ausbildung 2"} =>
        IF wd(d) > 5
        THEN xx[e][d] = {}
        ELSE xx[e][d] \subseteq {"B Dienst", "C Dienst"}

\* apprentices: weekdays only, B Dienst or C Dienst only
row_lehrling(xx, e, d) ==
    qual(e) \in {"Ausbildung 1", "Ausbildung 2"} =>
        IF wd(d) >= 5
        THEN xx[e][d] = {}
        ELSE xx[e][d] \subseteq {"B Dienst", "C Dienst"}

RECURSIVE sum_days(_, _, _)
sum_days(xx, e, ds) ==
    IF ds = {} THEN 0
    ELSE LET d == CHOOSE dd \in ds : TRUE
         IN day_sum(xx, e, d) + sum_days(xx, e, ds \ {d})

\* Ausbildung 2: at most one worked weekend, at most one worked Sunday or
\* holiday
row_ausbildung2(xx, e) ==
    qual(e) = "Ausbildung 2" =>
        /\ Cardinality(worked_weekends(xx, e)) <= MAX_WEEKENDS_AUSB2
        /\ sum_days(xx, e, {d \in Days : wd(d) = 6
                                  \/ <<year, month, d>> \in ch_holidays}) <= 1

\* a variant that counts BS Dienst only
row_split_cap_bs(xx, d) ==
    Cardinality({e \in Emps : "BS Dienst" \in xx[e][d]}) <= MAX_SPLIT_SHIFTS

\* at most MAX_SPLIT_SHIFTS split shifts per day
row_split_cap(xx, d) ==
    Cardinality({e \in Emps : "BS Dienst" \in xx[e][d]})
      + Cardinality({e \in Emps : "C4 Dienst" \in xx[e][d]}) <= MAX_SPLIT_SHIFTS

\* a variant that keeps from split shifts the employees with one of the
\* qualifications Leitung, Ausbildung 1 and Ausbildung 2 only
row_split_qual_listed(xx, e, d) ==
    qual(e) \in {"Leitung", "Ausbildung 1", "Ausbildung 2"} =>
        "BS Dienst" \notin xx[e][d] /\ "C4 Dienst" \notin xx[e][d]

\* only PH and HF work split shifts
row_split_qual(xx, e, d) ==
    qual(e) \notin {"PH", "HF"} =>
        "BS Dienst" \notin xx[e][d] /\ "C4 Dienst" \notin xx[e][d]

\* the rows without slack other than the daily minimums
HardRules(xx, yy) ==
    /\ \A e \in Emps : \A d \in Days :
          /\ row_buero_zero(yy, e, d)
          /\ row_one_shift(xx, yy, e, d)
          /\ row_available(xx, e, d)
          /\ row_leitung(xx, yy, e, d)
          /\ row_transition(xx, e, d)
          /\ row_lehrling(xx, e, d)
          /\ row_split_qual(xx, e, d)
    /\ \A e \in Emps :
          /\ row_buero_days(yy, e)
          /\ row_weekends(xx, e)
          /\ row_ausbildung2(xx, e)
    /\ \A d \in Days : row_split_cap(xx, d)

\* the daily minimums of the non-optional shift codes
Coverage(xx) == \A d \in Days : \A s \in Shifts : row_coverage(xx, d, s)

\* every row of the program holds at the point (xx, yy); the rows that carry
\* a slack variable without upper bound hold at every point
Feasible(xx, yy) == HardRules(xx, yy) /\ Coverage(xx)

\* sum of the shifts of the five days d .. d+4
block_sum(xx, e, d) ==
    day_sum(xx, e, d) + day_sum(xx, e, d + 1) + day_sum(xx, e, d + 2)
        + day_sum(xx, e, d + 3) + day_sum(xx, e, d + 4)

\* the first days of the windows of five days
Windows == 1..(num_days - 4)

\* a variant with the row block_sum <= 5 + Z in place of block_sum <= 4 + Z:
\* five worked days leave Z at 0
consecutive_block_late(xx, e, d) == IF block_sum(xx, e, d) > 5 THEN 1 ELSE 0

\* consecutive_block[(e, d)]: the value of Z that the rows 5 * Z <= block_sum
\* and block_sum <= 4 + Z leave
consecutive_block(xx, e, d) == IF block_sum(xx, e, d) >= 5 THEN 1 ELSE 0

Max(a, b) == IF a >= b THEN a ELSE b

\* consecutive_violation[(e, d)]: the least value of the slack V that the
\* rows for the days d+5 and d+6 leave; V has a cost of 1000 in the objective
consecutive_violation(xx, e, d) ==
    LET Z == consecutive_block(xx, e, d)
        v5 == IF d + 5 <= num_days THEN day_sum(xx, e, d + 5) - 1 + Z ELSE 0
        v6 == IF d + 6 <= num_days THEN day_sum(xx, e, d + 6) - 1 + Z ELSE 0
    IN Max(0, Max(v5, v6))

\* the penalties and costs of the objective, and the minimums of the rows
\* with slack
FACH_PENALTY == 5000
EARLY_FACH_PENALTY == 5000
LATE_HF_PENALTY == 5000
EARLY_COVERAGE_PENALTY == 4000
LATE_COVERAGE_PENALTY == 4000
NONFACH_PENALTY == 3000
B_DIENST_PENALTY == 3000
EXCESSIVE_WORKDAY_PENALTY == 2000
CONSECUTIVE_SHIFT_PENALTY == 1000
WORKDAY_DEVIATION_PENALTY == 100
EXTRA_FACH_LATE_PENALTY == 50
EARLY_SHIFT_COST == 1
LATE_SHIFT_COST == 3
SPLIT_SHIFT_COST == 5
MIN_EARLY_TOTAL == 5
MIN_EARLY_FACH == 1
MIN_LATE_TOTAL == 3
MIN_LATE_HF == 1
MIN_B_DIENST == 2

pure_late_shifts == {"S Dienst", "VS Dienst"}

\* req["fach"] and req["nonfach"] of the shift codes that have them
required_fach(s) == IF s = "C Dienst" THEN 0 ELSE 1

required_nonfach(s) == IF s = "B Dienst" THEN 2 ELSE 1

with_qualification == {"B Dienst", "C Dienst", "S Dienst"}

\* sum of the values of a function with a finite domain
RECURSIVE sum_fn(_)
sum_fn(f) ==
    IF DOMAIN f = {} THEN 0
    ELSE LET k == CHOOSE j \in DOMAIN f : TRUE
         IN f[k] + sum_fn([j \in DOMAIN f \ {k} |-> f[j]])

\* sum(x[(e, d, s)] for s in codes for e in es)
count_on(xx, d, codes, es) ==
    Cardinality({c \in es \X codes : c[2] \in xx[c[1]][d]})

\* the least value of a slack variable s >= 0 with sum + s >= minimum
shortfall(minimum, sum) == Max(0, minimum - sum)

\* the cost of the slack variables of day d, each at its least value
day_penalty(xx, d) ==
    LET fach == {e \in Emps : qual(e) \in fach_qual}
        nonfach == Emps \ fach
        hf == {e \in Emps : qual(e) = "HF"}
    IN sum_fn([s \in with_qualification |->
                  FACH_PENALTY
                      * shortfall(required_fach(s), count_on(xx, d, {s}, fach))
                  + NONFACH_PENALTY
                      * shortfall(required_nonfach(s), count_on(xx, d, {s}, nonfach))])
       + EARLY_COVERAGE_PENALTY
           * shortfall(MIN_EARLY_TOTAL, count_on(xx, d, early_shifts, Emps))
       + EARLY_FACH_PENALTY
           * shortfall(MIN_EARLY_FACH, count_on(xx, d, early_shifts, fach))
       + LATE_COVERAGE_PENALTY
           * shortfall(MIN_LATE_TOTAL, count_on(xx, d, late_shifts, Emps))
       + LATE_HF_PENALTY
           * shortfall(MIN_LATE_HF, count_on(xx, d, late_shifts, hf))
       + EXTRA_FACH_LATE_PENALTY
           * Max(0, count_on(xx, d, pure_late_shifts, fach) - 1)
       + B_DIENST_PENALTY
           * shortfall(MIN_B_DIENST, count_on(xx, d, {"B Dienst"}, Emps))

\* the coefficient of x[(e, d, s)] in the objective, the same for every
\* employee and day
assignment_cost(s) ==
    IF s \in {"B Dienst", "C Dienst"} THEN EARLY_SHIFT_COST
    ELSE IF s \in {"S Dienst", "VS Dienst"} THEN LATE_SHIFT_COST
    ELSE SPLIT_SHIFT_COST

\* total_shifts of employee e
total_shifts(xx, yy, e) ==
    sum_fn([d \in Days |-> day_sum(xx, e, d)])
        + (IF qual(e) = "Leitung"
           THEN Cardinality({d \in Days : <<e, d>> \in yy}) ELSE 0)

\* employee_workload.get(e_id, 0)
target_of(e) == IF e \in DOMAIN employee_workload THEN employee_workload[e] ELSE 0

\* the cost of under, over and excessive of employee e at their least
\* values in total_shifts + total_absences + under - over == target_days
workday_penalty(xx, yy, e) ==
    LET done == total_shifts(xx, yy, e) + credited[e] IN
    WORKDAY_DEVIATION_PENALTY * Max(0, target_of(e) - done)
        + EXCESSIVE_WORKDAY_PENALTY * Max(0, done - target_of(e))

\* the regular assignment costs of the point xx
assignment_total(xx) ==
    sum_fn([e \in Emps |->
               sum_fn([d \in Days |->
                          sum_fn([s \in xx[e][d] |-> assignment_cost(s)])])])

\* the value of the objective at the point (xx, yy), with every slack
\* variable at its least value
objective(xx, yy) ==
    sum_fn([d \in Days |-> day_penalty(xx, d)])
    + assignment_total(xx)
    + sum_fn([e \in Emps |->
                 sum_fn([d \in Windows |->
                            CONSECUTIVE_SHIFT_PENALTY
                                * consecutive_violation(xx, e, d)])])
    + sum_fn([e \in Emps |-> workday_penalty(xx, yy, e)])

\* the rows with an upper bound that involve the variables of cell (e, d):
\* once the fixed variables violate one of them, no completion satisfies it
Propagate(xx, yy, e, d) ==
    /\ row_buero_zero(yy, e, d)
    /\ row_one_shift(xx, yy, e, d)
    /\ row_available(xx, e, d)
    /\ row_leitung(xx, yy, e, d)
    /\ row_transition(xx, e, d - 1)
    /\ row_transition(xx, e, d)
    /\ row_lehrling(xx, e, d)
    /\ row_split_qual(xx, e, d)
    /\ row_weekends(xx, e)
    /\ row_ausbildung2(xx, e)
    /\ row_split_cap(xx, d)

-----------------------------------------------------------------------------
(* solver.Solve() *)

\* a point with a single variable x[(e, d, s)] set to 1
unit_point(e, d, s) ==
    [e2 \in Emps |-> [d2 \in Days |-> IF e2 = e /\ d2 = d THEN {s} ELSE {}]]

\* x[(e, d, s)] is not fixed to 0 by a row of its own cell
may_work(e, d, s) ==
    LET p == unit_point(e, d, s) IN
    /\ row_available(p, e, d)
    /\ row_leitung(p, {}, e, d)
    /\ row_lehrling(p, e, d)
    /\ row_split_qual(p, e, d)

\* the rows contradict each other whatever the other variables are: a day
\* without enough employees for a minimum, or a Leitung without four
\* weekdays for Bü Dienst
presolve_infeasible ==
    \/ \E d \in Days : \E s \in Shifts :
          /\ ~optional(s)
          /\ Cardinality({e \in Emps : may_work(e, d, s)}) < required_total(s)
    \/ \E e \in Emps :
          /\ qual(e) = "Leitung"
          /\ ~\E ds \in SUBSET {d \in Days : wd(d) < 5} :
                LET yy == {<<e, d>> : d \in ds}
                IN /\ row_buero_days(yy, e)
                   /\ \A d \in Days : row_buero_zero(yy, e, d)

\* index of the weekend group of a weekend day
group_of(d) ==
    CHOOSE w \in 1..Len(weekend_groups) : d \in group_days(weekend_groups[w])

\* the core staff works a fixed plan: every employee of a team has one
\* shift code (three on B, one on C, two on S, one on VS, one on BS and one
\* on C4 Dienst); team 0 works the weekdays, team k the weekend groups 2k+1
\* and 2k+2; the two on split shifts work the odd weekdays only; nobody
\* works on a day of absence
core_shift(e) ==
    CASE core_pos(e) <= 3 -> "B Dienst"
      [] core_pos(e) = 4 -> "C Dienst"
      [] core_pos(e) \in {5, 6} -> "S Dienst"
      [] core_pos(e) = 7 -> "VS Dienst"
      [] core_pos(e) = 8 -> "BS Dienst"
      [] OTHER -> "C4 Dienst"

core_works(e, d) ==
    IF core_pos(e) >= 8 THEN core_team(e) = 0 /\ wd(d) < 5 /\ d % 2 = 1
    ELSE IF wd(d) < 5 THEN core_team(e) = 0
    ELSE core_team(e) = (group_of(d) - 1) \div 2

core_plan ==
    [e \in Emps |-> [d \in Days |->
        IF e \in CoreStaff /\ core_works(e, d) /\ <<e, d>> \notin absent
        THEN {core_shift(e)} ELSE {}]]

\* the cells the search branches on, in the order of the employees and days
is_open(c) == c[1] \notin CoreStaff /\ c \notin absent

open_cells ==
    SelectSeq([i \in 1..(Len(employees) * num_days) |->
                  <<employees[((i - 1) \div num_days) + 1],
                    ((i - 1) % num_days) + 1>>],
              is_open)

\* the variables of a cell that a search step may set to 1
CellChoices ==
    {c \in SUBSET (Shifts \cup {BUERO}) : Cardinality(c) <= MaxPerCell}

\* solution_values: the values of the variables in the order of
\* variable_names
col_value(xx, yy) ==
    [i \in 1..Len(variable_names) |->
        LET v == variable_names[i] IN
        IF v[3] = BUERO THEN bit(<<v[1], v[2]>> \in yy)
        ELSE bit(v[3] \in xx[v[1]][v[2]])]

\* every name in variable_names is a key of the x and y of this invocation;
\* otherwise x[var_tuple] raises KeyError
names_known ==
    \A i \in 1..Len(variable_names) :
        variable_names[i][1] \in Emps /\ variable_names[i][2] \in Days

\* the value returned for a solver status: <<solution>> for a
\* ScheduleSolution, <<>> for None
returned_for(st, xx, yy) ==
    IF st \in {"OPTIMAL", "FEASIBLE"}
    THEN <<[col_value |-> col_value(xx, yy)]>>
    ELSE <<>>

\* a variant that keeps the entries of the list
not_cleared(names) == names

\* variable_names.clear()
cleared(names) == <<>>

-----------------------------------------------------------------------------
(* database.py: get_employee_absences.  A text is a sequence of            *)
(* one-character strings; NULL is the value of an empty column.            *)

NULL == <<"NULL">>

\* the character U+2013 (en dash), the second range separator
EnDash == "U+2013"

\* str.split(c)
RECURSIVE split_char(_, _)
split_char(s, c) ==
    IF \A i \in 1..Len(s) : s[i] # c
    THEN <<s>>
    ELSE LET i == CHOOSE j \in 1..Len(s) :
                      s[j] = c /\ \A k \in 1..(j - 1) : s[k] # c
         IN <<SubSeq(s, 1, i - 1)>> \o split_char(SubSeq(s, i + 1, Len(s)), c)

\* str.strip()
RECURSIVE strip(_)
strip(s) ==
    IF Len(s) = 0 THEN s
    ELSE IF s[1] = " " THEN strip(Tail(s))
    ELSE IF s[Len(s)] = " " THEN strip(SubSeq(s, 1, Len(s) - 1))
    ELSE s

\* c in s
contains(s, c) == \E i \in 1..Len(s) : s[i] = c

\* [e.strip() for e in date_string.split(',') if e.strip()]
RECURSIVE stripped(_)
stripped(ps) ==
    IF ps = <<>> THEN <<>>
    ELSE (IF strip(Head(ps)) = <<>> THEN <<>> ELSE <<strip(Head(ps))>>)
            \o stripped(Tail(ps))

entries_of(date_string) == stripped(split_char(date_string, ","))

\* int(t.split('.')[0]) and int(t.split('.')[1]): <<day, month>>, or <<>> when
\* one of them raises ValueError or IndexError
date_fields(t) ==
    LET parts == split_dot(t) IN
    IF /\ Len(parts) >= 2
       /\ int_ok(strip(parts[1]))
       /\ int_ok(strip(parts[2]))
    THEN <<int_of(strip(parts[1])), int_of(strip(parts[2]))>>
    ELSE <<>>

\* the parts of a range entry
range_parts(entry) ==
    IF contains(entry, "-") THEN split_char(entry, "-")
    ELSE split_char(entry, EnDash)

is_range(entry) == contains(entry, "-") \/ contains(entry, EnDash)

\* the body of the try block raises ValueError or IndexError
entry_raises(entry) ==
    IF is_range(entry)
    THEN \/ Len(range_parts(entry)) # 2
         \/ date_fields(strip(range_parts(entry)[1])) = <<>>
         \/ date_fields(strip(range_parts(entry)[2])) = <<>>
    ELSE date_fields(entry) = <<>>

\* a variant that leaves out the last day: day in range(lo, hi)
days_records_exclusive(lo, hi, m, absence_type) ==
    [i \in 1..(hi - lo) |-> <<date_str(lo + i - 1, m, TRUE), absence_type>>]

\* the records (f"{day:02d}.{m:02d}.", absence_type) for day in range(lo, hi + 1)
days_records(lo, hi, m, absence_type) ==
    [i \in 1..(hi - lo + 1) |-> <<date_str(lo + i - 1, m, TRUE), absence_type>>]

\* a variant that ends the days of the start month with the calendar
last_day_calendar(m) == IF m \in 1..12 THEN mdays[m] ELSE 31

\* the last day emitted for the start month of a range over two months:
\* range(start_day, 32)
last_day_emitted(m) == 31

\* a variant that appends the text of a single date as it was entered
entry_records_verbatim(entry, absence_type) ==
    IF entry_raises(entry) THEN <<>>
    ELSE IF is_range(entry)
    THEN LET a == date_fields(strip(range_parts(entry)[1]))
             b == date_fields(strip(range_parts(entry)[2]))
         IN IF a[2] = b[2]
            THEN days_records(a[1], b[1], a[2], absence_type)
            ELSE days_records(a[1], last_day_emitted(a[2]), a[2], absence_type)
                    \o days_records(1, b[1], b[2], absence_type)
    ELSE << <<entry, absence_type>> >>

\* the records appended for one entry
entry_records(entry, absence_type) ==
    IF entry_raises(entry) THEN <<>>
    ELSE IF is_range(entry)
    THEN LET a == date_fields(strip(range_parts(entry)[1]))
             b == date_fields(strip(range_parts(entry)[2]))
         IN IF a[2] = b[2]
            THEN days_records(a[1], b[1], a[2], absence_type)
            ELSE days_records(a[1], last_day_emitted(a[2]), a[2], absence_type)
                    \o days_records(1, b[1], b[2], absence_type)
    ELSE LET a == date_fields(entry)
         IN << <<date_str(a[1], a[2], TRUE), absence_type>> >>

\* a variant of the loop in which the first exception ends the loop
RECURSIVE collect_until_error(_, _)
collect_until_error(entries, absence_type) ==
    IF entries = <<>> \/ entry_raises(Head(entries)) THEN <<>>
    ELSE entry_records(Head(entries), absence_type)
            \o collect_until_error(Tail(entries), absence_type)

\* the loop over the entries: an entry that raises is skipped
RECURSIVE collect(_, _)
collect(entries, absence_type) ==
    IF entries = <<>> THEN <<>>
    ELSE entry_records(Head(entries), absence_type)
            \o collect(Tail(entries), absence_type)

\* process_date_entries(date_string, absence_type)
process_date_entries(date_string, absence_type) ==
    IF date_string = NULL \/ date_string = <<>> THEN <<>>
    ELSE collect(entries_of(date_string), absence_type)

\* absence_list of one row
absence_list(row) ==
    process_date_entries(row.SL, "SL") \o process_date_entries(row.Fe, "Fe")
        \o process_date_entries(row.UW, "uw") \o process_date_entries(row.w, "w")

\* get_employee_absences(): only the rows with a non-empty absence_list get
\* an entry
get_employee_absences(tab) ==
    [e \in {i \in DOMAIN tab : absence_list(tab[i]) # <<>>} |-> absence_list(tab[e])]

-----------------------------------------------------------------------------
(* Actions *)

\* the state before an invocation with one of the inputs of ins
InitFrom(ins) ==
    /\ \E inp \in ins :
          /\ year = inp.year
          /\ month = inp.month
          /\ employees = inp.employees
          /\ employee_qualifications = inp.employee_qualifications
          /\ absences = inp.absences
          /\ ch_holidays = inp.ch_holidays
          /\ employee_workload = inp.employee_workload
    /\ pc = "start"
    /\ variable_names = <<>>
    /\ absent = {}
    /\ weekend_groups = <<>>
    /\ x = <<>>
    /\ y = {}
    /\ open = <<>>
    /\ status = "NOT_SOLVED"
    /\ result = <<>>
    /\ credited = <<>>
    /\ rows = <<>>
    /\ calls = 1
    /\ absence_data = <<>>
    /\ tables = <<>>

Init == InitFrom(Inputs)

\* generate_schedule_highs up to solver.Solve(): variable_names is cleared
\* and filled, the absences are evaluated, the weekend groups are scanned
BuildModel ==
    /\ pc = "start"
    /\ variable_names' = cleared(variable_names) \o x_names(employees)
                             \o y_names(employees)
    /\ absent' = {c \in Emps \X Days :
                     employee_is_absent(c[1], c[2], month, absences)}
    /\ weekend_groups' = scan_weekends(1, {}, <<>>)
    /\ credited' = [e \in Emps |-> total_absences(e, month, absences, num_days)]
    /\ pc' = "built"
    /\ UNCHANGED <<inputs, x, y, open, status, result, outside>>

\* the solver proves the rows infeasible; generate_schedule_highs returns
\* None (result is <<>> for None and <<solution>> for a ScheduleSolution)
SolveInfeasible ==
    /\ pc = "built"
    /\ presolve_infeasible = TRUE
    /\ status' = "INFEASIBLE"
    /\ result' = returned_for("INFEASIBLE", x, y)
    /\ pc' = "done"
    /\ UNCHANGED <<inputs, variable_names, absent, weekend_groups, x, y, open,
                   credited, outside>>

\* the search starts from the plan of the core staff and branches on the
\* cells of the other employees
SolveStart ==
    /\ pc = "built"
    /\ presolve_infeasible = FALSE
    /\ x' = core_plan
    /\ y' = {}
    /\ open' = open_cells
    /\ pc' = "search"
    /\ UNCHANGED <<inputs, variable_names, absent, weekend_groups, status,
                   result, credited, outside>>

\* one step of the search: the variables of the next open cell are fixed
Branch ==
    /\ pc = "search"
    /\ open # <<>>
    /\ LET e == Head(open)[1]
           d == Head(open)[2]
       IN \E c \in CellChoices :
             LET xx == [x EXCEPT ![e][d] = c \ {BUERO}]
                 yy == IF BUERO \in c THEN y \cup {<<e, d>>} ELSE y
             IN /\ Propagate(xx, yy, e, d)
                /\ x' = xx
                /\ y' = yy
    /\ open' = Tail(open)
    /\ UNCHANGED <<inputs, variable_names, absent, weekend_groups, pc, status,
                   result, credited, outside>>

\* the solver stops with the current point as its solution, at the end of
\* the search or with the incumbent when the time limit is reached;
\* generate_schedule_highs returns the values of the variables in the order
\* of variable_names, or raises KeyError at a name that is not its own
SolveFound ==
    /\ pc = "search"
    /\ Feasible(x, y) = TRUE
    /\ status' = IF open = <<>> THEN "OPTIMAL" ELSE "FEASIBLE"
    /\ IF names_known
       THEN /\ result' = returned_for(status', x, y)
            /\ pc' = "done"
       ELSE /\ result' = <<>>
            /\ pc' = "raised"
    /\ UNCHANGED <<inputs, variable_names, absent, weekend_groups, x, y, open,
                   credited, outside>>

\* CreateSolver gives no solver: None is returned after variable_names was
\* cleared
SolverNotCreated ==
    /\ pc = "start"
    /\ variable_names' = cleared(variable_names)
    /\ status' = "NO_SOLVER"
    /\ result' = <<>>
    /\ pc' = "done"
    /\ UNCHANGED <<inputs, absent, weekend_groups, x, y, open, credited, outside>>

\* the solver ends without a point: the time limit is reached before an
\* incumbent is found (NOT_SOLVED), or the backend fails (ABNORMAL)
SolveFails ==
    /\ pc = "built"
    /\ \E st \in {"NOT_SOLVED", "ABNORMAL"} :
          /\ status' = st
          /\ result' = returned_for(st, x, y)
    /\ pc' = "done"
    /\ UNCHANGED <<inputs, variable_names, absent, weekend_groups, x, y, open,
                   credited, outside>>

Next ==
    \/ BuildModel
    \/ SolverNotCreated
    \/ SolveInfeasible
    \/ SolveFails
    \/ SolveStart
    \/ Branch
    \/ SolveFound

Spec == Init /\ [][Next]_vars

\* the next invocation of generate_schedule_highs, after the previous one
\* has returned: the module-level list variable_names is as it was left
Call ==
    /\ pc = "done"
    /\ calls < MaxCalls
    /\ calls' = calls + 1
    /\ \E inp \in FewInputs :
          /\ year' = inp.year
          /\ month' = inp.month
          /\ employees' = inp.employees
          /\ employee_qualifications' = inp.employee_qualifications
          /\ absences' = inp.absences
          /\ ch_holidays' = inp.ch_holidays
          /\ employee_workload' = inp.employee_workload
    /\ pc' = "start"
    /\ absent' = {}
    /\ weekend_groups' = <<>>
    /\ x' = <<>>
    /\ y' = {}
    /\ open' = <<>>
    /\ status' = "NOT_SOLVED"
    /\ result' = <<>>
    /\ credited' = <<>>
    /\ UNCHANGED <<variable_names, rows, absence_data, tables>>

InitCalls == InitFrom(FewInputs)

NextCalls == Next \/ Call

\* a caller that invokes generate_schedule_highs several times, one
\* invocation after the other
SpecCalls == InitCalls /\ [][NextCalls]_vars

\* variable_names as an invocation with the input inp fills it
names_of(inp) ==
    LET emps == inp.employees
        n == days_of(inp.year, inp.month)
    IN [i \in 1..(n * Len(shift_codes) * Len(emps)) |->
           LET k == i - 1
               per_day == Len(shift_codes) * Len(emps)
           IN <<emps[(k % Len(emps)) + 1],
                (k \div per_day) + 1,
                shift_codes[((k % per_day) \div Len(emps)) + 1]>>]
       \o SelectSeq([i \in 1..(n * Len(emps)) |->
                        <<emps[((i - 1) % Len(emps)) + 1],
                          ((i - 1) \div Len(emps)) + 1, BUERO>>],
                    LAMBDA v : qual_of(inp.employee_qualifications, v[1]) = "Leitung")

\* another invocation of generate_schedule_highs, in another thread, runs
\* from its start to its call of solver.Solve() while this invocation is in
\* solver.Solve() or has just returned: it clears the module-level list and
\* fills it with its own variables
OtherInvocation ==
    /\ pc \in {"built", "search", "done"}
    /\ \E inp \in FewInputs :
          /\ names_of(inp) # variable_names
          /\ variable_names' = names_of(inp)
    /\ UNCHANGED <<inputs, pc, absent, weekend_groups, x, y, open, status,
                   result, credited, outside>>

NextOverlap == Next \/ OtherInvocation

\* two invocations that overlap in time
SpecOverlap == InitCalls /\ [][NextOverlap]_vars

-----------------------------------------------------------------------------
(* The absences of the database: the tables that are read, and the steps   *)
(* of app.py that read them and hand them to generate_schedule_highs       *)

\* largest number of comma-separated tokens in a column
MaxTokens == 2

\* the last of the years whose months are scanned for weekends
MaxYear == 2028

\* largest number of rows of the table schedule, and largest id given to
\* a row of the table employees
MaxRows == 2

\* largest number of calls of create_tables
MaxCreates == 2

\* "D.M.-D.M."
range_tok(ds, ms, de, me) ==
    date_str(ds, ms, FALSE) \o <<"-">> \o date_str(de, me, FALSE)

\* tokens of a column, each with the (day, month) pairs of the records that
\* are expected for it
Cases ==
    { [txt |-> date_str(7, 2, TRUE), days |-> << <<7, 2>> >>],
      [txt |-> range_tok(2, 2, 4, 2), days |-> << <<2, 2>>, <<3, 2>>, <<4, 2>> >>],
      [txt |-> date_str(9, 2, FALSE) \o <<EnDash>> \o date_str(10, 2, FALSE),
       days |-> << <<9, 2>>, <<10, 2>> >>],
      [txt |-> range_tok(28, 2, 2, 3),
       days |-> << <<28, 2>>, <<29, 2>>, <<30, 2>>, <<31, 2>>, <<1, 3>>, <<2, 3>> >>],
      [txt |-> range_tok(30, 1, 1, 3),
       days |-> << <<30, 1>>, <<31, 1>>, <<1, 3>> >>],
      [txt |-> range_tok(29, 4, 1, 5),
       days |-> << <<29, 4>>, <<30, 4>>, <<31, 4>>, <<1, 5>> >>],
      [txt |-> <<"i", "n", "v", "a", "l", "i", "d", "-", "d", "a", "t", "e">>, days |-> <<>>],
      [txt |-> date_str(5, 2, FALSE) \o <<"-", "x">>, days |-> <<>>],
      [txt |-> range_tok(11, 2, 12, 2) \o <<"-">> \o date_str(13, 2, FALSE),
       days |-> <<>>],
      [txt |-> <<"7">>, days |-> <<>>],
      [txt |-> range_tok(5, 2, 3, 2), days |-> <<>>],
      [txt |-> date_str(7, 2, FALSE), days |-> << <<7, 2>> >>],
      [txt |-> date_str(100, 2, FALSE), days |-> << <<100, 2>> >>],
      [txt |-> date_str(14, 2, FALSE) \o <<EnDash>> \o range_tok(15, 2, 16, 2),
       days |-> << <<14, 2>>, <<15, 2>>, <<16, 2>> >>] }

Tokens == {c.txt : c \in Cases}

TokenLists == UNION {[1..n -> Tokens] : n \in 0..MaxTokens}

\* ", ".join(ts)
RECURSIVE join(_)
join(ts) ==
    IF ts = <<>> THEN <<>>
    ELSE IF Len(ts) = 1 THEN ts[1]
    ELSE ts[1] \o <<",", " ">> \o join(Tail(ts))

db_row(sl, fe, uw, w) == [SL |-> sl, Fe |-> fe, UW |-> uw, w |-> w]

\* the tables: employee 1 has a Fe column of up to MaxTokens tokens, or the
\* Fe range over the end of February next to other columns; employee 2 has
\* no absences
Tables ==
    {(1 :> db_row(NULL, join(ts), NULL, NULL)) @@ (2 :> db_row(<<>>, <<>>, <<>>, <<>>))
        : ts \in TokenLists}
    \cup
    {(1 :> db_row(sl, range_tok(28, 2, 2, 3), uw, w)) @@ (2 :> db_row(NULL, NULL, NULL, NULL))
        : sl \in {NULL, date_str(28, 2, FALSE),
                  join(<<date_str(1, 2, FALSE), date_str(30, 2, FALSE)>>)},
          uw \in {NULL, date_str(26, 2, FALSE)},
          w \in {NULL, date_str(27, 2, FALSE)}}

\* the table employees as the app finds it
InitDB ==
    /\ rows \in Tables
    /\ year = 2025
    /\ month \in {2, 3}
    /\ employees = <<1, 2>>
    /\ employee_qualifications = (1 :> "PH") @@ (2 :> "HF")
    /\ employee_workload = (1 :> target_days) @@ (2 :> target_days)
    /\ absences = <<>>
    /\ ch_holidays = {}
    /\ pc = "db"
    /\ variable_names = <<>>
    /\ absent = {}
    /\ weekend_groups = <<>>
    /\ x = <<>>
    /\ y = {}
    /\ open = <<>>
    /\ status = "NOT_SOLVED"
    /\ result = <<>>
    /\ credited = <<>>
    /\ calls = 1
    /\ absence_data = <<>>
    /\ tables = <<>>

\* absences = database.get_employee_absences()
GetAbsences ==
    /\ pc = "db"
    /\ absences' = get_employee_absences(rows)
    /\ pc' = "absences_read"
    /\ UNCHANGED <<year, month, employees, employee_qualifications, ch_holidays,
                   employee_workload, variable_names, absent, weekend_groups,
                   x, y, open, status, result, credited, outside>>

\* generate_schedule_highs on the absences read from the database, for the
\* whole month: the days of absence and the number of credited days
CreditAbsences ==
    /\ pc = "absences_read"
    /\ absent' = {c \in Emps \X (1..monthrange(year, month)) :
                     employee_is_absent(c[1], c[2], month, absences)}
    /\ credited' = [e \in Emps |->
                       total_absences(e, month, absences, monthrange(year, month))]
    /\ pc' = "credited"
    /\ UNCHANGED <<inputs, variable_names, weekend_groups, x, y, open, status,
                   result, outside>>

\* absence_data of app.py: for every employee of get_employee_absences(),
\* in the order of the rows, the records whose text contains the text
\* f"{month:02d}.", each as the entry (date, employee_id, shift_id); the
\* date f"{year}-{month:02d}-{day:02d}" is the triple <<year, month, day>>
\* with day = int(day_month.split('.')[0])
RECURSIVE absence_rows(_, _)
absence_rows(abs, ids) ==
    LET sub == render(month, TRUE) \o <<".">>
        in_month(rec) ==
            \E i \in 1..(Len(rec[1]) - Len(sub) + 1) :
                SubSeq(rec[1], i, i + Len(sub) - 1) = sub
        entries(e) ==
            LET recs == SelectSeq(abs[e], in_month)
            IN [i \in 1..Len(recs) |->
                   [date |-> <<year, month, int_of(split_dot(recs[i][1])[1])>>,
                    employee_id |-> e,
                    shift_id |-> recs[i][2]]]
    IN IF ids = <<>> THEN <<>>
       ELSE (IF Head(ids) \in DOMAIN abs THEN entries(Head(ids)) ELSE <<>>)
               \o absence_rows(abs, Tail(ids))

\* Ist of employee e in the table that is shown, for a roster without
\* shifts of e: the dates whose cell, the first entry of the employee and
\* date (aggfunc="first"), is neither 'w' nor 'uw'
count_workdays(e) ==
    Cardinality(
        {i \in 1..Len(absence_data) :
            /\ absence_data[i].employee_id = e
            /\ absence_data[i].shift_id \notin {"w", "uw"}
            /\ \A j \in 1..(i - 1) :
                  ~(/\ absence_data[j].employee_id = e
                    /\ absence_data[j].date = absence_data[i].date)})

\* the app shows the roster of the month: the absences are read again and
\* those of the month are merged into the table
DisplayAbsences ==
    /\ pc = "credited"
    /\ absence_data' = absence_rows(get_employee_absences(rows), employees)
    /\ pc' = "displayed"
    /\ UNCHANGED <<inputs, variable_names, absent, weekend_groups, x, y, open,
                   status, result, credited, rows, calls, tables>>

NextDB ==
    \/ GetAbsences
    \/ CreditAbsences
    \/ DisplayAbsences

SpecDB == InitDB /\ [][NextDB]_vars

-----------------------------------------------------------------------------
(* The weekend groups of the months of several years: the scan of          *)
(* generate_schedule_highs over the whole month                            *)

InitCal ==
    /\ year \in 2024..MaxYear
    /\ month \in 1..12
    /\ employees = <<>>
    /\ employee_qualifications = <<>>
    /\ employee_workload = <<>>
    /\ absences = <<>>
    /\ ch_holidays = {}
    /\ pc = "cal"
    /\ variable_names = <<>>
    /\ absent = {}
    /\ weekend_groups = <<>>
    /\ x = <<>>
    /\ y = {}
    /\ open = <<>>
    /\ status = "NOT_SOLVED"
    /\ result = <<>>
    /\ credited = <<>>
    /\ rows = <<>>
    /\ calls = 1
    /\ absence_data = <<>>
    /\ tables = <<>>

\* the loop over the days that fills weekend_groups
ScanWeekends ==
    /\ pc = "cal"
    /\ weekend_groups' = scan_weekends(1, {}, <<>>)
    /\ pc' = "scanned"
    /\ UNCHANGED <<inputs, variable_names, absent, x, y, open, status, result,
                   credited, outside>>

NextCal == ScanWeekends

SpecCal == InitCal /\ [][NextCal]_vars

-----------------------------------------------------------------------------
(* database.py: the tables.  tables.exists tells whether the three tables  *)
(* are there, shifts holds the codes of the rows of the table shifts in    *)
(* the order of their ids, employees the rows <<id, name>>, employee_seq   *)
(* the largest id given so far (AUTOINCREMENT), schedule the rows          *)
(* <<date, employee_id, shift_id>>, and created the number of calls of     *)
(* create_tables.  pc is the operation that was called last.               *)

\* the codes of shifts_data
shifts_data ==
    <<"B Dienst", "C Dienst", "VS Dienst", "S Dienst", "BS Dienst", "C4 Dienst",
      BUERO, "w", "x", "Fe", "IW", "SL", "uw", "Kr">>

\* a variant without the constraint UNIQUE on the column code
insert_shift_again(shifts, code) == Append(shifts, code)

\* INSERT INTO shifts: sqlite3.IntegrityError, which is passed over, when
\* the code is in the table
insert_shift(shifts, code) ==
    IF \E i \in 1..Len(shifts) : shifts[i] = code THEN shifts
    ELSE Append(shifts, code)

InitTables ==
    /\ tables = [exists |-> FALSE, shifts |-> <<>>, employees |-> <<>>,
                 employee_seq |-> 0, schedule |-> <<>>, created |-> 0]
    /\ pc = "main"
    /\ year = 2025
    /\ month = 2
    /\ employees = <<>>
    /\ employee_qualifications = <<>>
    /\ employee_workload = <<>>
    /\ absences = <<>>
    /\ ch_holidays = {}
    /\ variable_names = <<>>
    /\ absent = {}
    /\ weekend_groups = <<>>
    /\ x = <<>>
    /\ y = {}
    /\ open = <<>>
    /\ status = "NOT_SOLVED"
    /\ result = <<>>
    /\ credited = <<>>
    /\ rows = <<>>
    /\ calls = 1
    /\ absence_data = <<>>

\* create_tables(): CREATE TABLE IF NOT EXISTS for the three tables, and
\* one INSERT for every entry of shifts_data
CreateTables ==
    /\ tables.created < MaxCreates
    /\ LET inserted[i \in 0..Len(shifts_data)] ==
               IF i = 0 THEN tables.shifts
               ELSE insert_shift(inserted[i - 1], shifts_data[i])
       IN tables' = [tables EXCEPT !.exists = TRUE,
                                   !.shifts = inserted[Len(shifts_data)],
                                   !.created = @ + 1]
    /\ pc' = "create_tables"
    /\ UNCHANGED <<inputs, variable_names, absent, weekend_groups, x, y, open,
                   status, result, credited, rows, calls, absence_data>>

\* store_employee_data(df): DELETE FROM employees, then the rows of df are
\* appended with new ids
StoreEmployeeData ==
    /\ tables.exists
    /\ \E df \in UNION {[1..n -> {"a", "b"}] : n \in 0..MaxRows} :
          /\ tables.employee_seq + Len(df) <= MaxRows
          /\ tables' = [tables EXCEPT
                           !.employees = [i \in 1..Len(df) |->
                                             <<tables.employee_seq + i, df[i]>>],
                           !.employee_seq = @ + Len(df)]
    /\ pc' = "store_employee_data"
    /\ UNCHANGED <<inputs, variable_names, absent, weekend_groups, x, y, open,
                   status, result, credited, rows, calls, absence_data>>

\* add_shift_assignment(date, employee_id, shift_id): the foreign keys are
\* not enforced, any employee_id and shift_id is inserted
AddShiftAssignment ==
    /\ tables.exists
    /\ Len(tables.schedule) < MaxRows
    /\ \E e \in 1..2 : \E sh \in {"B Dienst", "zz"} :
          tables' = [tables EXCEPT
                        !.schedule = Append(@, <<<<year, month, 1>>, e, sh>>)]
    /\ pc' = "add_shift_assignment"
    /\ UNCHANGED <<inputs, variable_names, absent, weekend_groups, x, y, open,
                   status, result, credited, rows, calls, absence_data>>

NextTables ==
    \/ CreateTables
    \/ StoreEmployeeData
    \/ AddShiftAssignment

SpecTables == InitTables /\ [][NextTables]_vars

-----------------------------------------------------------------------------
(* The returned roster *)

\* generate_schedule_highs has returned a ScheduleSolution
Returned == pc = "done" /\ result # <<>>

\* the names of the variables with value 1 in the returned solution, as the
\* caller reads them: variable_names[i] has the value col_value[i]
roster ==
    {variable_names[i] : i \in {j \in 1..Len(variable_names) :
                                   result[1].col_value[j] = 1}}

\* the codes assigned to employee e on day d: the regular shifts of the
\* returned solution, and Bü Dienst from the returned solution or, for the
\* employees without an entry in variable_names, from the solver's y
assigned(r, e, d) ==
    {s \in Shifts : <<e, d, s>> \in r}
        \cup (IF <<e, d, BUERO>> \in r \/ <<e, d>> \in y THEN {BUERO} ELSE {})

\* C1: in every returned roster every employee has, on every day, at most
\* one of the six regular shifts and Bü Dienst
C1_AtMostOneAssignment ==
    Returned =>
        LET r == roster IN
        \A e \in Emps : \A d \in Days : Cardinality(assigned(r, e, d)) <= 1

\* a roster is returned in which a Leitung has Bü Dienst on one day and
\* B Dienst on another, and another employee works a regular shift
C1_Witness ==
    /\ Returned
    /\ LET r == roster IN
       /\ \E e \in Emps : \E d1, d2 \in Days :
             /\ qual(e) = "Leitung"
             /\ assigned(r, e, d1) = {BUERO}
             /\ assigned(r, e, d2) = {"B Dienst"}
       /\ \E e \in Emps : \E d \in Days :
             qual(e) # "Leitung" /\ Cardinality(assigned(r, e, d)) = 1

\* e has a regular shift on day d of the returned roster
worked(r, e, d) == \E s \in Shifts : <<e, d, s>> \in r

\* the text of a record of employee e names day d of the scheduled month,
\* with or without leading zeros
has_record(e, d) ==
    /\ e \in DOMAIN absences
    /\ \E i \in 1..Len(absences[e]) :
          absences[e][i][1] \in {date_str(d, month, TRUE), date_str(d, month, FALSE)}

C3_Leitung ==
    Returned =>
        LET r == roster IN
        \A e \in Emps : qual(e) = "Leitung" =>
            /\ Cardinality({d \in Days : BUERO \in assigned(r, e, d)}) = 4
            /\ \A d \in Days :
                  IF wd(d) >= 5
                  THEN assigned(r, e, d) = {}
                  ELSE assigned(r, e, d) \subseteq {"B Dienst", BUERO}

\* a roster is returned in which a Leitung with five free weekdays has four
\* Bü Dienst and one B Dienst
C3_Witness ==
    /\ Returned
    /\ LET r == roster IN
       \E e \in Emps :
          /\ qual(e) = "Leitung"
          /\ Cardinality({d \in Days : wd(d) < 5 /\ ~has_record(e, d)}) > 4
          /\ Cardinality({d \in Days : assigned(r, e, d) = {BUERO}}) = 4
          /\ \E d \in Days : assigned(r, e, d) = {"B Dienst"}

\* C4: in every returned roster an apprentice (Ausbildung 1 or 2) has no
\* assignment on Saturdays and Sundays, and on weekdays nothing but B Dienst
\* or C Dienst
C4_Apprentice ==
    Returned =>
        LET r == roster IN
        \A e \in Emps : qual(e) \in {"Ausbildung 1", "Ausbildung 2"} =>
            \A d \in Days :
                IF wd(d) >= 5
                THEN assigned(r, e, d) = {}
                ELSE assigned(r, e, d) \subseteq {"B Dienst", "C Dienst"}

\* a roster is returned in which an apprentice who is present on a Saturday
\* works B Dienst on one weekday and C Dienst on another
C4_Witness ==
    /\ Returned
    /\ LET r == roster IN
       \E e \in Emps : \E d1, d2, d3 \in Days :
          /\ qual(e) \in {"Ausbildung 1", "Ausbildung 2"}
          /\ assigned(r, e, d1) = {"B Dienst"}
          /\ assigned(r, e, d2) = {"C Dienst"}
          /\ wd(d3) >= 5 /\ ~has_record(e, d3)

\* C5: in every returned roster, after S or BS Dienst an employee works
\* neither B nor C Dienst on the next day, and after VS or C4 Dienst none of
\* B, BS, C4 Dienst on the next day
C5_Transitions ==
    Returned =>
        LET r == roster IN
        \A e \in Emps : \A d \in 1..(num_days - 1) :
            /\ (assigned(r, e, d) \cap {"S Dienst", "BS Dienst"} # {})
                  => assigned(r, e, d + 1) \cap {"B Dienst", "C Dienst"} = {}
            /\ (assigned(r, e, d) \cap {"VS Dienst", "C4 Dienst"} # {})
                  => assigned(r, e, d + 1)
                        \cap {"B Dienst", "BS Dienst", "C4 Dienst"} = {}

\* a roster is returned in which an employee works C Dienst on the day after
\* VS Dienst, and an employee works a late shift on the day after S Dienst
C5_Witness ==
    /\ Returned
    /\ LET r == roster IN
       /\ \E e \in Emps : \E d \in 1..(num_days - 1) :
             /\ "VS Dienst" \in assigned(r, e, d)
             /\ "C Dienst" \in assigned(r, e, d + 1)
       /\ \E e \in Emps : \E d \in 1..(num_days - 1) :
             /\ "S Dienst" \in assigned(r, e, d)
             /\ assigned(r, e, d + 1) \cap {"S Dienst", "VS Dienst"} # {}

\* the weekend units of the month: a Saturday with the Sunday that follows
\* it in the month, or an isolated weekend day
WeekendUnits ==
    {{d, d + 1} : d \in {dd \in Days : wd(dd) = 5 /\ dd + 1 <= num_days}}
        \cup {{d} : d \in {dd \in Days : \/ wd(dd) = 5 /\ dd = num_days
                                         \/ wd(dd) = 6 /\ dd = 1}}

units_worked(r, e) ==
    {u \in WeekendUnits : \E d \in u : assigned(r, e, d) # {}}

\* C6: in every returned roster every employee is assigned in at most 2
\* weekend units, an Ausbildung 2 in at most 1
C6_WeekendUnits ==
    Returned =>
        LET r == roster IN
        \A e \in Emps :
            Cardinality(units_worked(r, e))
                <= (IF qual(e) = "Ausbildung 2" THEN 1 ELSE 2)

\* a roster is returned in which an employee who is present in three
\* weekend units works in exactly two, on both days of one of them
C6_Witness ==
    /\ Returned
    /\ LET r == roster IN
       \E e \in Emps :
          /\ Cardinality({u \in WeekendUnits :
                             \E d \in u : ~has_record(e, d)}) >= 3
          /\ e \in DOMAIN absences
          /\ Cardinality(units_worked(r, e)) = 2
          /\ \E u \in WeekendUnits :
                Cardinality(u) = 2 /\ \A d \in u : assigned(r, e, d) # {}

split_workers(r, d) ==
    {e \in Emps : assigned(r, e, d) \cap {"BS Dienst", "C4 Dienst"} # {}}

C8_OneVSDienst ==
    Returned =>
        LET r == roster IN
        \A d \in Days :
            Cardinality({e \in Emps : "VS Dienst" \in assigned(r, e, d)}) <= 1

\* the window d .. d+4 is fully worked by e
full_window(r, e, d) == \A j \in d..(d + 4) : worked(r, e, j)

office_days ==
    {c \in Emps \X Days :
        /\ qual(c[1]) = "Leitung"
        /\ wd(c[2]) < 5
        /\ c \notin absent
        /\ Cardinality({d \in 1..c[2] : wd(d) < 5 /\ <<c[1], d>> \notin absent})
              <= BURO_DAYS_PER_MONTH}

no_shifts == [e \in Emps |-> [d \in Days |-> {}]]

\* C10: generate_schedule_highs returns a roster whenever the hard rules
\* (one shift per day, absences, Leitung, apprentice and split restrictions,
\* caps, transitions, weekend limits) can be satisfied together; a shortfall
\* against the daily coverage never leaves it without a roster
C10_RosterWheneverRulesSatisfiable ==
    (pc = "done" /\ HardRules(no_shifts, office_days)) => Returned

-----------------------------------------------------------------------------
(* Properties of the absences and of their crediting *)

\* the days of the month for which e has a record of kind Fe or SL, by the
\* text of the records
credited_days(e) ==
    {d \in 1..monthrange(year, month) :
        /\ e \in DOMAIN absences
        /\ \E i \in 1..Len(absences[e]) :
              /\ absences[e][i][1] \in {date_str(d, month, TRUE),
                                        date_str(d, month, FALSE)}
              /\ absences[e][i][2] \in {"Fe", "SL"}}

to_records(days, absence_type) ==
    [i \in 1..Len(days) |->
        <<date_str(days[i][1], days[i][2], TRUE), absence_type>>]

\* the days expected for a token
expected_days(tok) == (CHOOSE c \in Cases : c.txt = tok).days

\* number of range separators in a token
separators(tok) == Cardinality({i \in 1..Len(tok) : tok[i] \in {"-", EnDash}})

\* the records expected for a list of tokens, in token order; with strict,
\* a token with more than one separator is expected to give none
RECURSIVE expected_records(_, _, _)
expected_records(ts, absence_type, strict) ==
    IF ts = <<>> THEN <<>>
    ELSE (IF strict /\ separators(Head(ts)) > 1 THEN <<>>
          ELSE to_records(expected_days(Head(ts)), absence_type))
            \o expected_records(Tail(ts), absence_type, strict)

\* the records returned for employee e
records_of(e) == IF e \in DOMAIN absences THEN absences[e] ELSE <<>>

\* only the Fe column of employee 1 is filled
only_fe == rows[1].SL = NULL /\ rows[1].UW = NULL /\ rows[1].w = NULL

CrossRanges == {<<28, 2, 2, 3>>, <<30, 1, 1, 3>>, <<29, 4, 1, 5>>}

\* the pairs (lo, m), ..., (hi, m)
span(lo, hi, m) == [i \in 1..(hi - lo + 1) |-> <<lo + i - 1, m>>]

\* C18 as stated: a range over two months gives the days from the start day
\* to the last calendar day of the start month, then the days from 1 to the
\* end day of the end month
C18_RangeOverTwoMonths ==
    (pc = "absences_read" /\ only_fe) =>
        \A q \in CrossRanges :
            rows[1].Fe = range_tok(q[1], q[2], q[3], q[4])
                => records_of(1) =
                      to_records(span(q[1], monthrange(year, q[2]), q[2])
                                    \o span(1, q[3], q[4]), "Fe")

\* C18 as amended: a range over two months gives the day numbers from the
\* start day to 31 for the start month, whatever the length of that month
\* (29.02., 30.02. and 31.02. for "28.2.-2.3."), then the days from 1 to the
\* end day of the end month
C18_RangeOverTwoMonthsTo31 ==
    (pc = "absences_read" /\ only_fe) =>
        \A q \in CrossRanges :
            rows[1].Fe = range_tok(q[1], q[2], q[3], q[4])
                => records_of(1) =
                      to_records(span(q[1], 31, q[2]) \o span(1, q[3], q[4]), "Fe")

\* the records of "28.2.-2.3." are returned
C18_Witness ==
    /\ pc = "absences_read"
    /\ only_fe
    /\ rows[1].Fe = range_tok(28, 2, 2, 3)
    /\ Len(records_of(1)) = 6
    /\ records_of(1)[4] = <<date_str(31, 2, TRUE), "Fe">>
    /\ records_of(1)[6] = <<date_str(2, 3, TRUE), "Fe">>

\* C19: a range whose end month is neither the start month nor the month
\* after it gives no record
C19_LongRangeRejected ==
    (pc = "absences_read" /\ only_fe) =>
        \A q \in CrossRanges :
            (/\ rows[1].Fe = range_tok(q[1], q[2], q[3], q[4])
             /\ q[4] \notin {q[2], (q[2] % 12) + 1})
                => records_of(1) = <<>>

\* all columns of the row are empty, NULL or hold malformed tokens only
no_absence(row) ==
    \A col \in {row.SL, row.Fe, row.UW, row.w} :
        \/ col = NULL
        \/ \E ts \in TokenLists :
              col = join(ts) /\ \A i \in 1..Len(ts) : expected_days(ts[i]) = <<>>

\* C20: the result of get_employee_absences has an entry for every row of
\* the table; a row without absences is mapped to the empty list
C20_EntryForEveryEmployee ==
    pc = "absences_read" =>
        \A e \in DOMAIN rows :
            /\ e \in DOMAIN absences
            /\ no_absence(rows[e]) => absences[e] = <<>>

\* the form DD.MM.
canonical(t) ==
    /\ Len(t) = 6
    /\ IsDigit(t[1]) /\ IsDigit(t[2]) /\ t[3] = "."
    /\ IsDigit(t[4]) /\ IsDigit(t[5]) /\ t[6] = "."

\* a single-date token gives one record of the kind of its column;
\* "7.2." and "07.02." give the same record; the absence test of the
\* scheduler gives the same days for the records without leading zeros
single_dates_canonical ==
    LET single_date(t) ==
            t # NULL /\ ~is_range(t) /\ ~contains(t, ",") /\ date_fields(t) # <<>>
        of_kind(absence_type) ==
            SelectSeq(records_of(1), LAMBDA r : r[2] = absence_type)
        unpadded ==
            [e \in DOMAIN absences |->
                [i \in 1..Len(absences[e]) |->
                    LET f == date_fields(absences[e][i][1])
                    IN <<date_str(f[1], f[2], FALSE), absences[e][i][2]>>]]
        columns == {<<"SL", "SL">>, <<"Fe", "Fe">>, <<"UW", "uw">>, <<"w", "w">>}
    IN
    /\ \A c \in columns :
          single_date(rows[1][c[1]]) =>
              LET f == date_fields(rows[1][c[1]])
              IN of_kind(c[2]) = << <<date_str(f[1], f[2], TRUE), c[2]>> >>
    /\ (only_fe /\ rows[1].Fe \in {date_str(7, 2, FALSE), date_str(7, 2, TRUE)})
          => records_of(1) = << <<date_str(7, 2, TRUE), "Fe">> >>
    /\ pc = "credited" =>
          absent = {c \in Emps \X (1..monthrange(year, month)) :
                       employee_is_absent(c[1], c[2], month, unpadded)}

C22_RangeWithinMonth ==
    (pc = "absences_read" /\ only_fe) =>
        \A a, b \in 1..31 : \A sep \in {"-", EnDash} :
            rows[1].Fe = date_str(a, 2, FALSE) \o <<sep>> \o date_str(b, 2, FALSE)
                => /\ Len(records_of(1)) = Max(b - a + 1, 0)
                   /\ \A i \in 1..Len(records_of(1)) :
                         records_of(1)[i] = <<date_str(a + i - 1, 2, TRUE), "Fe">>

\* the range "2.2.-4.2." has given the records of the days 2, 3 and 4
C22_Witness ==
    /\ pc = "absences_read"
    /\ only_fe
    /\ rows[1].Fe = range_tok(2, 2, 4, 2)
    /\ Len(records_of(1)) = 3
    /\ records_of(1)[3] = <<date_str(4, 2, TRUE), "Fe">>

\* C29: an absence record is merged into the table of month m only if the
\* month of the record is m: every entry of absence_data comes from a
\* record of the employee with the day of the entry and the month m, and
\* Ist counts no more than the days of such records of kind Fe or SL
C29_AbsencesOfTheMonthOnly ==
    pc = "displayed" =>
        /\ \A i \in 1..Len(absence_data) :
              LET a == absence_data[i] IN
              \E j \in 1..Len(records_of(a.employee_id)) :
                  /\ date_fields(records_of(a.employee_id)[j][1])
                        = <<a.date[3], month>>
                  /\ records_of(a.employee_id)[j][2] = a.shift_id
        /\ \A e \in Emps :
              count_workdays(e)
                  <= Cardinality({date_fields(records_of(e)[j][1])[1] :
                                    j \in {k \in 1..Len(records_of(e)) :
                                              /\ date_fields(records_of(e)[k][1])[2] = month
                                              /\ records_of(e)[k][2] \in {"Fe", "SL"}}})

-----------------------------------------------------------------------------
(* Properties of the objective and of the calls *)

\* the point (x, y) with the rows of e1 and e2 exchanged
swap_x(e1, e2) ==
    [e \in Emps |-> IF e = e1 THEN x[e2] ELSE IF e = e2 THEN x[e1] ELSE x[e]]

swap_y(e1, e2) ==
    {<<(IF c[1] = e1 THEN e2 ELSE IF c[1] = e2 THEN e1 ELSE c[1]), c[2]>> : c \in y}

\* C12: no two distinct feasible rosters have the same objective value:
\* the roster that is returned and the roster in which two employees of
\* the same qualification, target and absences exchange their shifts
\* differ in their objective value
C12_UniqueOptimum ==
    Returned =>
        \A e1, e2 \in Emps :
            (/\ swap_x(e1, e2) # x
             /\ Feasible(swap_x(e1, e2), swap_y(e1, e2)))
                => objective(swap_x(e1, e2), swap_y(e1, e2)) # objective(x, y)

\* the number of entries for the regular shifts in variable_names
regular_count == num_days * Len(shift_codes) * Len(employees)

leitung == {e \in Emps : qual(e) = "Leitung"}

\* C13: after any sequence of invocations, when the latest one returns a
\* solution, variable_names holds the variables of that invocation and no
\* others: each (e, d, s) of day x regular shift code x employee once, then
\* each (e, d, Bü Dienst) of day x Leitung once; col_value has the same
\* length and col_value[i] is the value of the variable variable_names[i]
C13_VariableNamesOfLatestCall ==
    Returned =>
        /\ Len(variable_names) = regular_count + num_days * Cardinality(leitung)
        /\ {variable_names[i] : i \in 1..regular_count} = Emps \X Days \X Shifts
        /\ {variable_names[i] : i \in (regular_count + 1)..Len(variable_names)}
              = leitung \X Days \X {BUERO}
        /\ Len(result[1].col_value) = Len(variable_names)
        /\ \A i \in 1..Len(variable_names) :
              LET v == variable_names[i] IN
              result[1].col_value[i] =
                 IF v[3] = BUERO THEN bit(<<v[1], v[2]>> \in y)
                 ELSE bit(v[3] \in x[v[1]][v[2]])

\* the second invocation returns a roster with Bü Dienst for a Leitung
C13_Witness ==
    /\ Returned
    /\ calls = 2
    /\ \E e \in leitung : \E i \in 1..Len(variable_names) :
          /\ variable_names[i][1] = e
          /\ variable_names[i][3] = BUERO
          /\ result[1].col_value[i] = 1

\* the variables with value 1 at the point of this invocation
own_assignments ==
    {v \in Emps \X Days \X Shifts : v[3] \in x[v[1]][v[2]]}
        \cup {<<c[1], c[2], BUERO>> : c \in y}

\* C14: invocations share no mutable state: when an invocation returns a
\* solution while another one overlaps it, col_value has the length of the
\* variable list and the roster that the caller extracts with
\* variable_names is the roster of this invocation
C14_NoSharedState ==
    Returned =>
        /\ Len(result[1].col_value) = Len(variable_names)
        /\ roster = own_assignments

\* the outcomes of an invocation that returns no roster
failure_statuses == {"INFEASIBLE", "NOT_SOLVED", "ABNORMAL", "NO_SOLVER"}

\* C15: a roster is returned exactly when the solver status is OPTIMAL or
\* FEASIBLE, and a result without a roster identifies its cause: the result
\* for the status at hand differs from the result for every other failure
C15_FailureCauseIdentified ==
    pc = "done" =>
        /\ (result # <<>>) <=> (status \in {"OPTIMAL", "FEASIBLE"})
        /\ result = <<>> =>
              \A st \in failure_statuses \ {status} :
                  returned_for(st, x, y) # result

\* the codes of the split shifts
split_codes == {"BS Dienst", "C4 Dienst"}

\* C16: in every returned roster, an employee whose qualification is not PH
\* or HF (another string, or no entry at all) has neither BS Dienst nor
\* C4 Dienst on any day
C16_SplitShiftsForFachOnly ==
    Returned =>
        LET r == roster IN
        \A e \in Emps : \A d \in Days :
            qual(e) \notin {"PH", "HF"} => assigned(r, e, d) \cap split_codes = {}

\* a roster is returned in which an employee with an unrecognised
\* qualification and an employee without a qualification entry both work,
\* on a day on which fewer than MAX_SPLIT_SHIFTS employees work split shifts
C16_Witness ==
    /\ Returned
    /\ LET r == roster IN
       \E d \in Days : \E e1, e2 \in Emps :
          /\ e1 \in DOMAIN employee_qualifications
          /\ qual(e1) \notin {"PH", "HF", "Leitung", "Ausbildung 1", "Ausbildung 2"}
          /\ e2 \notin DOMAIN employee_qualifications
          /\ assigned(r, e1, d) # {}
          /\ assigned(r, e2, d) # {}
          /\ Cardinality(split_workers(r, d)) < MAX_SPLIT_SHIFTS

\* C23: one unit of violation at any tier costs more than all lower tiers
\* together can cost: every penalty weight exceeds the assignment costs,
\* the lowest tier, of the roster that is returned, and every weight
\* exceeds what one unit per day of a lower weight costs over the days
\* that are planned
C23_PriorityLadder ==
    LET penalty_weights ==
            {FACH_PENALTY, EARLY_FACH_PENALTY, LATE_HF_PENALTY,
             EARLY_COVERAGE_PENALTY, LATE_COVERAGE_PENALTY, NONFACH_PENALTY,
             B_DIENST_PENALTY, EXCESSIVE_WORKDAY_PENALTY,
             CONSECUTIVE_SHIFT_PENALTY, WORKDAY_DEVIATION_PENALTY,
             EXTRA_FACH_LATE_PENALTY}
    IN Returned =>
          /\ \A w \in penalty_weights : assignment_total(x) < w
          /\ \A w1, w2 \in penalty_weights : w1 > w2 => w1 > num_days * w2

\* C24: the requirement on the qualified staff of B Dienst is met without
\* penalty only with an HF on B Dienst: on every day of a returned roster
\* without an HF on B Dienst, the slack of the row has a positive value
C24_HFOnBDienst ==
    Returned =>
        \A d \in Days :
            (\A e \in Emps : qual(e) = "HF" => "B Dienst" \notin x[e][d])
                => shortfall(required_fach("B Dienst"),
                             count_on(x, d, {"B Dienst"},
                                      {e \in Emps : qual(e) \in fach_qual})) > 0

\* C25: on every day of a returned roster, fewer than 4 non-Fach employees
\* on the shifts of the early group cost a non-Fach penalty, and more than
\* 6 cost none
C25_NonFachEarlyBand ==
    LET nonfach_staff == {e \in Emps : qual(e) \notin fach_qual}
        nonfach_penalty(d) ==
            sum_fn([s \in with_qualification |->
                       NONFACH_PENALTY
                           * shortfall(required_nonfach(s),
                                       count_on(x, d, {s}, nonfach_staff))])
    IN Returned =>
          \A d \in Days :
              LET n == count_on(x, d, early_shifts, nonfach_staff) IN
              /\ n < 4 => nonfach_penalty(d) > 0
              /\ n > 6 => nonfach_penalty(d) = 0

\* C26: the weekend groups partition the Saturdays and Sundays of the
\* month: every weekend day is in exactly one group, a group has one or two
\* days, a group of two is a Saturday and the Sunday after it, a Saturday
\* with a Sunday after it in the month is grouped with it, a Sunday on day
\* 1 and a Saturday on the last day are groups of their own, and no group
\* holds a weekday
C26_WeekendUnitsPartition ==
    pc = "scanned" =>
        LET groups == weekend_groups
            G == 1..Len(groups)
        IN /\ \A d \in 1..num_days :
                 Cardinality({w \in G : \E i \in 1..Len(groups[w]) : groups[w][i] = d})
                     = (IF wd(d) \in {5, 6} THEN 1 ELSE 0)
           /\ \A w \in G :
                 /\ Len(groups[w]) \in {1, 2}
                 /\ \A i \in 1..Len(groups[w]) : groups[w][i] \in 1..num_days
                 /\ Len(groups[w]) = 2 =>
                       /\ wd(groups[w][1]) = 5
                       /\ groups[w][2] = groups[w][1] + 1
                       /\ wd(groups[w][2]) = 6
                 /\ Len(groups[w]) = 1 =>
                       \/ groups[w][1] = 1 /\ wd(1) = 6
                       \/ groups[w][1] = num_days /\ wd(num_days) = 5
           /\ wd(1) = 6 => \E w \in G : groups[w] = <<1>>
           /\ wd(num_days) = 5 => \E w \in G : groups[w] = <<num_days>>

\* a month that begins with a Sunday and ends with a Saturday has been
\* scanned: five groups, the first and the last of one day
C26_Witness ==
    /\ pc = "scanned"
    /\ wd(1) = 6
    /\ wd(num_days) = 5
    /\ Len(weekend_groups) = 5
    /\ weekend_groups[1] = <<1>>
    /\ weekend_groups[5] = <<num_days>>
    /\ Len(weekend_groups[2]) = 2

short_of_weekdays ==
    {e \in Emps : /\ qual(e) = "Leitung"
                  /\ Cardinality({d \in Days : wd(d) < 5 /\ ~has_record(e, d)})
                        < BURO_DAYS_PER_MONTH}

C30_CreateTablesIdempotent ==
    /\ [](tables.exists =>
            /\ Len(tables.shifts) = 14
            /\ \A i \in 1..Len(shifts_data) :
                  Cardinality({j \in 1..Len(tables.shifts) :
                                  tables.shifts[j] = shifts_data[i]}) = 1)
    /\ [][(tables.exists /\ CreateTables) =>
             /\ tables'.employees = tables.employees
             /\ tables'.employee_seq = tables.employee_seq
             /\ tables'.schedule = tables.schedule
             /\ tables'.shifts = tables.shifts]_vars

\* create_tables has just been called for the second time, on tables with
\* rows in employees and in schedule
C30_Witness ==
    /\ pc = "create_tables"
    /\ tables.created = 2
    /\ tables.employees # <<>>
    /\ tables.schedule # <<>>
    /\ Len(tables.shifts) = 14

=============================================================================
